---- MODULE Spec2Model ----
(***************************************************************************)
(* A model of diecast's rule scheduler: the dependency graph               *)
(* (src/lib/dependency.rs), the job manager (src/job/manager.rs), the job  *)
(* (src/job/mod.rs) and the site front (src/site.rs).                      *)
(***************************************************************************)
EXTENDS Integers, Sequences, FiniteSets, TLC

\* ---------------------------------------------------------------- bounds
MaxNode == 3    \* node / rule names are 1..MaxNode
MaxEdges == 3   \* most edges a graph of GraphSpec is given
MaxStarts == 2  \* most start nodes of a restricted resolution in GraphSpec
MaxRules == 3   \* most rules registered with the site (or added to the manager)
MaxRuns == 3    \* most build / update calls of one behaviour
MaxPath == 1    \* input paths are 1..MaxPath
MaxAdds == 2    \* most rules added to the manager directly before a run
MaxDirectRuns == 1  \* most direct Manager::build / update calls
MaxInput == 2   \* ItemSpec: the files of the input directory are 1..MaxInput
MaxItemRules == 2  \* ItemSpec: most rules added before a run
MaxItemRuns == 3   \* ItemSpec: most build / update calls

Names == 1..MaxNode

Paths == 1..MaxPath

InputPaths == 1..MaxInput

\* ---------------------------------------------------------------- state
VARIABLES
    site_rules,    \* Site.rules: the registered rules, in registration order
    rules,         \* Manager.rules: name -> rule
    graph,         \* Manager.graph (in GraphSpec: the graph under test)
    dependencies,  \* Manager.dependencies: name -> remaining count
    waiting,       \* Manager.waiting: the jobs not yet dispatched
    finished,      \* Manager.finished: name -> completed bind
    count,         \* Manager.count
    paths,         \* Manager.paths: the files found by update_paths
    paths_arg,     \* the argument of the update in progress ({} when none is)
    queue,         \* evaluator: jobs enqueued and not yet processed
    completed,     \* evaluator: what dequeue will return, oldest first
                   \* (Some(job), or None for a worker that panicked)
    pc,            \* where the manager thread is
    left,          \* iterations the dequeue loop still has to make
    run,           \* number of build / update calls made so far
    checks,        \* the build profile: arithmetic overflow panics or wraps
    enq,           \* name -> times its job was enqueued in this run
    ran,           \* names whose handler has run in this run
    donenow,       \* names handle_done has installed in this run
    mode,          \* the last call made: "none", "build" or "update"
    dequeues,      \* completed jobs dequeued in this run
    resolved,      \* GraphSpec: the result of the last resolution
    failed,        \* names whose handler returned an error in this run
    call           \* HandleSpec: the last call made, with what it returned

\* ---------------------------------------------------------------- maps
\* HashMap / BTreeMap: a function whose domain is the set of keys.
EmptyMap == [k \in {} |-> {}]

Put(m, k, v) == [x \in (DOMAIN m) \cup {k} |-> IF x = k THEN v ELSE m[x]]

\* ---------------------------------------------------------------- Graph
NewGraph == [edges |-> EmptyMap, reverse |-> EmptyMap]

\* (mutation of add_node: the entry is set whether or not it is vacant)
add_node_overwrites(g, node) == [g EXCEPT !.edges = Put(@, node, {})]

add_node(g, node) ==
    IF node \in DOMAIN g.edges
    THEN g
    ELSE [g EXCEPT !.edges = Put(@, node, {})]

\* (mutation of add_edge: the reverse map is not updated)
add_edge_forward_only(g, a, b) ==
    [edges   |-> IF a \in DOMAIN g.edges
                 THEN Put(g.edges, a, g.edges[a] \cup {b})
                 ELSE Put(g.edges, a, {b}),
     reverse |-> g.reverse]

add_edge(g, a, b) ==
    [edges   |-> IF a \in DOMAIN g.edges
                 THEN Put(g.edges, a, g.edges[a] \cup {b})
                 ELSE Put(g.edges, a, {b}),
     reverse |-> IF b \in DOMAIN g.reverse
                 THEN Put(g.reverse, b, g.reverse[b] \cup {a})
                 ELSE Put(g.reverse, b, {a})]

nodes(g) == DOMAIN g.edges

\* None (no key, or an empty set) is an iteration over nothing.
neighbors_of(g, node) ==
    IF node \in DOMAIN g.edges /\ g.edges[node] # {}
    THEN g.edges[node]
    ELSE {}

\* None is the empty set: the callers only iterate or test membership.
dependents_of(g, node) ==
    IF node \in DOMAIN g.edges THEN g.edges[node] ELSE {}

HasDependencies(g, node) == node \in DOMAIN g.reverse

dependencies_of(g, node) ==
    IF node \in DOMAIN g.reverse THEN g.reverse[node] ELSE {}

dependency_count(g, node) ==
    IF node \in DOMAIN g.reverse THEN Cardinality(g.reverse[node]) ELSE 0

\* ---------------------------------------------------------------- Topological
NewTopological ==
    [visited     |-> {},
     on_stack    |-> {},
     edge_to     |-> EmptyMap,
     topological |-> << >>,
     is_err      |-> FALSE,
     path        |-> << >>]

\* the while-let loop of dfs: follow the breadcrumbs as long as there is one
RECURSIVE TracePath(_, _)
TracePath(edge_to, path) ==
    IF Head(path) \in DOMAIN edge_to
    THEN TracePath(edge_to, <<edge_to[Head(path)]>> \o path)
    ELSE path

CyclePath(t, node, neighbor) == TracePath(t.edge_to, <<node, neighbor>>)

\* the head of dfs: the node is on the stack and visited
dfs_enter(t, node) ==
    [t EXCEPT !.on_stack = @ \cup {node}, !.visited = @ \cup {node}]

\* (mutation of dfs_finish: the node is pushed to the back of the ordering)
dfs_finish_push_back(t, node) ==
    [t EXCEPT !.on_stack = @ \ {node}, !.topological = @ \o <<node>>]

\* (mutation of dfs_finish: the node is never taken off the stack)
dfs_finish_keep_on_stack(t, node) ==
    [t EXCEPT !.topological = <<node>> \o @]

\* the tail of dfs: the node leaves the stack and goes to the front
dfs_finish(t, node) ==
    [t EXCEPT !.on_stack = @ \ {node}, !.topological = <<node>> \o @]

\* dfs(g, t, node) is the set of states dfs(node) can end in from state t:
\* one for each order in which the hash sets can yield the neighbors.
RECURSIVE dfs(_, _, _)
RECURSIVE dfs_neighbors(_, _, _, _)
dfs_neighbors(g, t, node, rest) ==
    IF rest = {}
    THEN {dfs_finish(t, node)}
    ELSE UNION {
        IF t.is_err
        THEN {t}
        ELSE IF neighbor \notin t.visited
        THEN UNION { dfs_neighbors(g, t2, node, rest \ {neighbor}) :
                     t2 \in dfs(g, [t EXCEPT !.edge_to = Put(@, neighbor, node)],
                                neighbor) }
        ELSE IF neighbor \in t.on_stack
        THEN dfs_neighbors(g, [t EXCEPT !.is_err = TRUE,
                                        !.path = CyclePath(t, node, neighbor)],
                           node, rest \ {neighbor})
        ELSE dfs_neighbors(g, t, node, rest \ {neighbor})
        : neighbor \in rest }

dfs(g, t, node) ==
    dfs_neighbors(g, dfs_enter(t, node), node, neighbors_of(g, node))

\* self.result.and(Ok(self.topological))
TopoResult(t) ==
    IF t.is_err THEN [ok |-> FALSE, seq |-> t.path]
                ELSE [ok |-> TRUE, seq |-> t.topological]

\* (mutation of from: the search is not restricted to the start node)
RECURSIVE all_nodes(_, _, _)
from_whole_graph(g, node) ==
    { TopoResult(t) : t \in all_nodes(g, NewTopological, nodes(g) \cup {node}) }

\* Topological::from(node)
from(g, node) == { TopoResult(t) : t \in dfs(g, NewTopological, node) }

\* Topological::all: the nodes in the order the hash map yields its keys
all_nodes(g, t, rest) ==
    IF rest = {}
    THEN {t}
    ELSE UNION {
        IF node \in t.visited
        THEN all_nodes(g, t, rest \ {node})
        ELSE UNION { all_nodes(g, t2, rest \ {node}) : t2 \in dfs(g, t, node) }
        : node \in rest }

all(g) == { TopoResult(t) : t \in all_nodes(g, NewTopological, nodes(g)) }

resolve_only(g, node) == from(g, node)

resolve_all(g) == all(g)

\* Graph::resolve(starts) of the manager's graph: the starts in vector order,
\* each searched unless an earlier search already visited it.
RECURSIVE from_nodes(_, _, _)
from_nodes(g, t, starts) ==
    IF starts = << >>
    THEN {t}
    ELSE IF Head(starts) \in t.visited
    THEN from_nodes(g, t, Tail(starts))
    ELSE UNION { from_nodes(g, t2, Tail(starts)) : t2 \in dfs(g, t, Head(starts)) }

resolve(g, starts) == { TopoResult(t) : t \in from_nodes(g, NewTopological, starts) }

\* ---------------------------------------------------------------- graph facts
\* (independent of the search: used to state the claims)
EdgeSet(g) == { e \in Names \X Names : e[1] \in DOMAIN g.edges /\ e[2] \in g.edges[e[1]] }

AllNodes(g) == (DOMAIN g.edges) \cup UNION { g.edges[n] : n \in DOMAIN g.edges }

Succ(g, S) == UNION { dependents_of(g, n) : n \in S }

RECURSIVE Closure(_, _)
Closure(g, S) ==
    LET T == S \cup Succ(g, S) IN IF T = S THEN S ELSE Closure(g, T)

HasCycle(g) == \E n \in AllNodes(g) : n \in Closure(g, Succ(g, {n}))

IndexOf(seq, x) == CHOOSE i \in 1..Len(seq) : seq[i] = x

Range(seq) == { seq[i] : i \in 1..Len(seq) }

SetToSeqs(S) == { s \in [1..Cardinality(S) -> S] : Range(s) = S }

\* ---------------------------------------------------------------- rules, jobs, binds
\* rule::Kind; a pattern is the set of paths it matches
Kinds ==
    {[tag |-> "Creating", pattern |-> {}]} \cup
    {[tag |-> "Matching", pattern |-> S] : S \in SUBSET Paths}

RuleSet == [name : Names, deps : SUBSET Names, kind : Kinds]

\* Option: << >> is None, <<x>> is Some(x)
None == << >>

Some(x) == <<x>>

\* Route::Read(path)
Read(path) == [tag |-> "Read", from |-> path]

\* Route::reading
reading(route) == IF route.tag = "Write" THEN None ELSE Some(route.from)

\* Route::Write(path)
Write(path) == [tag |-> "Write", to |-> path]

\* Route::ReadWrite(from, to)
ReadWrite(path, to) == [tag |-> "ReadWrite", from |-> path, to |-> to]

\* Route::writing
writing(route) == IF route.tag = "Read" THEN None ELSE Some(route.to)

\* (mutation of route_to: a ReadWrite route is routed from its target)
route_to_from_target(route, router) ==
    IF route.tag = "Read" THEN ReadWrite(route.from, router[route.from])
    ELSE IF route.tag = "Write" THEN Write(router[route.to])
    ELSE ReadWrite(route.to, router[route.to])

\* Route::route_to
route_to(route, router) ==
    IF route.tag = "Read" THEN ReadWrite(route.from, router[route.from])
    ELSE IF route.tag = "Write" THEN Write(router[route.to])
    ELSE ReadWrite(route.from, router[route.from])

\* Item::new: the item is not stale
Item_new(route) == [route |-> route, stale |-> FALSE]

\* item::set_stale
set_stale_item(item, is_stale) == [item EXCEPT !.stale = is_stale]

\* (mutation of matches: every pattern matches every path)
matches_any(kind, path) == TRUE

\* Pattern::matches
matches(kind, path) == path \in kind.pattern

\* Job::new: no bind yet; bind_data.dependencies is `deps`, `job_paths`
\* the manager's paths when the job was made
Job_new(name, deps, kind, job_paths) ==
    [name |-> name, deps |-> deps, kind |-> kind, bind |-> None, paths |-> job_paths]

\* Bind::new(data): `arc` is the run in which handle_done shared the bind
\* (0: not shared yet), `deps` the dependencies of its own data
Bind_new(name, deps) ==
    [name |-> name, deps |-> deps, stale |-> FALSE, arc |-> 0, items |-> << >>]

\* bind::set_stale
set_stale(bind, is_stale) == [bind EXCEPT !.stale = is_stale]

\* Bind::items
Bind_items(bind) == bind.items

\* Bind::items_mut
Bind_items_mut(bind) == bind.items

\* (mutation of iter: the flag of the bind is not consulted)
iter_full(bind) == bind.items

\* Bind::iter: every item of a bind that is not stale, the stale items (in
\* their order) of a bind that is
iter(bind) ==
    IF ~bind.stale
    THEN bind.items
    ELSE SelectSeq(bind.items, LAMBDA item : item.stale)

\* Bind::iter_mut: as iter, over mutable references
iter_mut(bind) ==
    IF ~bind.stale
    THEN bind.items
    ELSE SelectSeq(bind.items, LAMBDA item : item.stale)

\* (mutation of populate: the pattern is not consulted)
populate_every_path(job, bind) ==
    [bind EXCEPT !.items = @ \o [i \in 1..Len(job.paths) |-> Item_new(Read(job.paths[i]))]]

\* Job::populate: a Matching rule gets one reading item for each of the
\* job's paths its pattern matches, in the order of the paths
populate(job, bind) ==
    IF job.kind.tag = "Creating"
    THEN bind
    ELSE LET found == SelectSeq(job.paths, LAMBDA path : matches(job.kind, path))
         IN  [bind EXCEPT !.items =
                @ \o [i \in 1..Len(found) |-> Item_new(Read(found[i]))]]

\* (mutation of process: the bind is populated on every run)
process_populates_again(job) ==
    [job EXCEPT !.bind =
        Some(populate(job, IF job.bind # None THEN job.bind[1]
                           ELSE Bind_new(job.name, job.deps)))]

\* Job::process: a job without a bind gets a fresh one built from its
\* bind_data and populated; a job with a bind hands that bind to the handler
\* as it is
process(job) ==
    IF job.bind # None
    THEN job
    ELSE [job EXCEPT !.bind = Some(populate(job, Bind_new(job.name, job.deps)))]

\* Job::into_bind
into_bind(job) == job.bind[1]

\* ---------------------------------------------------------------- usize
\* A usize is held as the residue modulo 2^64 nearest to zero: a negative
\* r stands for 2^64 + r. The right operands are small and not negative.
SubOverflows(a, b) == a >= 0 /\ a < b

AddOverflows(a, b) == a < 0 /\ a + b >= 0

\* ---------------------------------------------------------------- Manager
ZeroEnq == [n \in Names |-> 0]

\* the manager's fields (and the evaluator's input side) as one record
M ==
    [rules |-> rules, graph |-> graph, dependencies |-> dependencies,
     waiting |-> waiting, finished |-> finished, count |-> count,
     paths |-> paths, queue |-> queue, enq |-> enq, status |-> "ok"]

RECURSIVE add_edges(_, _, _)
add_edges(g, deps, bind) ==
    IF deps = {}
    THEN g
    ELSE LET dep == CHOOSE d \in deps : TRUE
         IN add_edges(add_edge(g, dep, bind), deps \ {dep}, bind)

\* Manager::add
add(m, rule) ==
    [m EXCEPT !.count = @ + 1,
              !.waiting = <<Job_new(rule.name, EmptyMap, rule.kind, m.paths)>> \o @,
              !.graph = add_edges(add_node(@, rule.name), rule.deps, rule.name),
              !.rules = Put(@, rule.name, rule)]

\* Manager::satisfy
satisfy(m, bind) ==
    LET dependents == dependents_of(m.graph, bind)
        names == { name \in DOMAIN m.dependencies : name \in dependents }
    IN  IF checks /\ \E name \in names : SubOverflows(m.dependencies[name], 1)
        THEN [m EXCEPT !.status = "panic"]
        ELSE [m EXCEPT !.dependencies =
                 [name \in DOMAIN @ |-> IF name \in names THEN @[name] - 1 ELSE @[name]]]

\* (mutation of IsReady: a job with one dependency left counts as ready)
IsReady_at_most_one(m, job) == m.dependencies[job.name] \in {0, 1}

\* the predicate of the partition in Manager::ready
IsReady(m, job) == m.dependencies[job.name] = 0

\* Manager::ready: the partition of `waiting`
ready(m) == SelectSeq(m.waiting, LAMBDA job : IsReady(m, job))

\* (mutation of not_ready: the ready jobs are left in `waiting`)
not_ready_keeps_all(m) == m.waiting

not_ready(m) == SelectSeq(m.waiting, LAMBDA job : ~IsReady(m, job))

\* (mutation of with_dependencies: the loop over the dependencies stops after
\* the first one)
with_dependencies_first_only(m, job) ==
    LET ds == dependencies_of(m.graph, job.name)
        first == IF ds = {} THEN {} ELSE {CHOOSE d \in ds : \A e \in ds : d <= e}
    IN  [job EXCEPT !.deps =
            [d \in (DOMAIN job.deps) \cup first |->
                IF d \in first THEN m.finished[d].arc ELSE job.deps[d]]]

\* the body of the loop of enqueue_ready for one job: the snapshot of the
\* finished binds of its dependencies goes into bind_data.dependencies
with_dependencies(m, job) ==
    LET ds == dependencies_of(m.graph, job.name)
    IN  [job EXCEPT !.deps =
            [d \in (DOMAIN job.deps) \cup ds |->
                IF d \in ds THEN m.finished[d].arc ELSE job.deps[d]]]

RECURSIVE enqueue_jobs(_, _)
enqueue_jobs(m, jobs) ==
    IF jobs = << >>
    THEN m
    ELSE LET job == Head(jobs)
         IN  IF ~(dependencies_of(m.graph, job.name) \subseteq DOMAIN m.finished)
             THEN [m EXCEPT !.status = "panic"]
             ELSE enqueue_jobs(
                    [m EXCEPT !.queue = @ \cup {with_dependencies(m, job)},
                              !.enq[job.name] = @ + 1],
                    Tail(jobs))

\* Manager::enqueue_ready
enqueue_ready(m) ==
    IF \E i \in 1..Len(m.waiting) : m.waiting[i].name \notin DOMAIN m.dependencies
    THEN [m EXCEPT !.status = "panic"]
    ELSE enqueue_jobs([m EXCEPT !.waiting = not_ready(m)], ready(m))

\* the HashMap sort_jobs collects `waiting` into: a later job replaces an
\* earlier one of the same name
job_map(jobs) ==
    [name \in { jobs[i].name : i \in 1..Len(jobs) } |->
        jobs[CHOOSE i \in 1..Len(jobs) :
                /\ jobs[i].name = name
                /\ \A j \in 1..Len(jobs) : jobs[j].name = name => j <= i]]

OldCount(m, name) ==
    IF name \in DOMAIN m.dependencies THEN m.dependencies[name] ELSE 0

\* Manager::sort_jobs
sort_jobs(m, order) ==
    LET jm == job_map(m.waiting)
    IN  IF Len(m.waiting) # Len(order)
        THEN [m EXCEPT !.status = "panic"]
        ELSE IF \E i \in 1..Len(order) : order[i] \notin DOMAIN jm
        THEN [m EXCEPT !.status = "panic"]
        ELSE IF checks /\ \E i \in 1..Len(order) :
                    AddOverflows(OldCount(m, order[i]), dependency_count(m.graph, order[i]))
        THEN [m EXCEPT !.status = "panic"]
        ELSE IF (DOMAIN jm) \ Range(order) # {}
        THEN [m EXCEPT !.status = "panic"]
        ELSE [m EXCEPT
                !.waiting = [i \in 1..Len(order) |-> jm[order[i]]],
                !.dependencies =
                    [name \in (DOMAIN @) \cup Range(order) |->
                        IF name \in Range(order)
                        THEN OldCount(m, name) + dependency_count(m.graph, name)
                        ELSE @[name]]]

\* Manager::reset
reset(m) == [m EXCEPT !.graph = NewGraph, !.waiting = << >>, !.count = 0]

\* (mutation of handle_done: the bind is not installed into `finished`)
handle_done_no_install(m, current, arc) ==
    LET m2 == satisfy(m, current.name)
    IN  IF m2.status # "ok" THEN m2 ELSE enqueue_ready(m2)

\* (mutation of handle_done: the ready jobs are enqueued before the counts of
\* the dependents are decremented)
handle_done_enqueues_first(m, current, arc) ==
    LET bind == [set_stale(into_bind(current), FALSE) EXCEPT !.arc = arc]
        m1 == [m EXCEPT !.finished = Put(@, current.name, bind)]
        m2 == enqueue_ready(m1)
    IN  IF m2.status # "ok" THEN m2 ELSE satisfy(m2, current.name)

\* Manager::handle_done; `arc` names the Arc made for the bind
handle_done(m, current, arc) ==
    LET bind == [set_stale(into_bind(current), FALSE) EXCEPT !.arc = arc]
        m1 == [m EXCEPT !.finished = Put(@, current.name, bind)]
        m2 == satisfy(m1, current.name)
    IN  IF m2.status # "ok" THEN m2 ELSE enqueue_ready(m2)

\* (mutation of build_resolved: the error of the resolution is not looked at)
build_resolved_ignores_cycle(m, r) ==
    LET m1 == sort_jobs(m, r.seq)
    IN  IF m1.status # "ok" THEN m1 ELSE enqueue_ready(m1)

\* Manager::build from the match on resolve_all to the head of the loop
build_resolved(m, r) ==
    IF ~r.ok
    THEN [m EXCEPT !.status = "exit"]
    ELSE LET m1 == sort_jobs(m, r.seq)
         IN  IF m1.status # "ok" THEN m1 ELSE enqueue_ready(m1)

IsMatching(m, name) == m.rules[name].kind.tag = "Matching"

\* Manager::update, the loop over the finished binds: the names pushed to
\* `matched` and the names inserted into `didnt`
matched_names(m, changed) ==
    { name \in DOMAIN m.finished :
        /\ IsMatching(m, name)
        /\ \E p \in changed : matches(m.rules[name].kind, p) }

didnt_names(m, changed) ==
    { name \in DOMAIN m.finished :
        /\ IsMatching(m, name)
        /\ ~\E p \in changed : matches(m.rules[name].kind, p) }

\* the two early returns of update
update_returns_early(m, changed) ==
    m.count = 0 \/ matched_names(m, changed) = {}

\* a set of names in the order a BTreeMap yields them
RECURSIVE Ascending(_)
Ascending(S) ==
    IF S = {}
    THEN << >>
    ELSE LET lo == CHOOSE x \in S : \A y \in S : x <= y
         IN  <<lo>> \o Ascending(S \ {lo})

\* the loop over the items of the clone: an item whose reading path can be
\* removed from `affected` is set stale
RECURSIVE mark_items(_, _)
mark_items(items, affected) ==
    IF items = << >>
    THEN << >>
    ELSE LET item == Head(items)
             r == reading(item.route)
         IN  IF r # None /\ r[1] \in affected
             THEN <<set_stale_item(item, TRUE)>> \o mark_items(Tail(items), affected \ {r[1]})
             ELSE <<item>> \o mark_items(Tail(items), affected)

\* `modified`: the clone of a finished Matching bind, dirtied (a clone is
\* not shared: its `arc` is 0)
modified(bind, kind, changed) ==
    LET affected == { p \in changed : matches(kind, p) }
    IN  [set_stale([bind EXCEPT !.items = mark_items(@, affected)], TRUE)
            EXCEPT !.arc = 0]

\* the job update makes for one name of the order
update_job(m, name, matched, changed) ==
    [name |-> name,
     deps |-> m.finished[name].deps,
     kind |-> m.rules[name].kind,
     bind |-> IF name \in matched
              THEN Some(modified(m.finished[name], m.rules[name].kind, changed))
              ELSE None,
     paths |-> m.paths]

Reverse(seq) == [i \in 1..Len(seq) |-> seq[Len(seq) + 1 - i]]

\* the subtraction of the dependencies found in `didnt`
RECURSIVE subtract_didnt(_, _, _)
subtract_didnt(m, names, didnt) ==
    IF names = << >>
    THEN m
    ELSE LET name == Head(names)
             affected == Cardinality(dependencies_of(m.graph, name) \cap didnt)
         IN  IF ~HasDependencies(m.graph, name)
             THEN subtract_didnt(m, Tail(names), didnt)
             ELSE IF checks /\ SubOverflows(m.dependencies[name], affected)
             THEN [m EXCEPT !.status = "panic"]
             ELSE subtract_didnt(
                    [m EXCEPT !.dependencies[name] = @ - affected],
                    Tail(names), didnt)

\* Manager::update from the match on resolve(matched) to the head of the loop
update_resolved(m, changed, r) ==
    LET matched == matched_names(m, changed)
        didnt == didnt_names(m, changed)
        order == r.seq
    IN  IF ~r.ok
        THEN [m EXCEPT !.status = "exit", !.waiting = << >>]
        ELSE IF \E i \in 1..Len(order) : order[i] \notin DOMAIN m.finished
        THEN [m EXCEPT !.status = "panic", !.waiting = << >>]
        ELSE LET jobs == [i \in 1..Len(order) |-> update_job(m, order[i], matched, changed)]
                 m1 == sort_jobs([m EXCEPT !.waiting = Reverse(jobs)], order)
                 m2 == IF m1.status # "ok" THEN m1 ELSE subtract_didnt(m1, order, didnt)
             IN  IF m2.status # "ok" THEN m2 ELSE enqueue_ready(m2)

\* ---------------------------------------------------------------- Site
RECURSIVE add_all(_, _)
add_all(m, rs) ==
    IF rs = << >> THEN m ELSE add_all(add(m, Head(rs)), Tail(rs))

\* Site::prepare, the loop over the registered rules
prepare(m) == add_all(m, site_rules)

RuleNames(rs) == { rs[i].name : i \in 1..Len(rs) }

\* ---------------------------------------------------------------- actions
Install(m) ==
    /\ rules' = m.rules
    /\ graph' = m.graph
    /\ dependencies' = m.dependencies
    /\ waiting' = m.waiting
    /\ finished' = m.finished
    /\ count' = m.count
    /\ paths' = m.paths
    /\ queue' = m.queue
    /\ enq' = m.enq

mvars == <<rules, graph, dependencies, waiting, finished, count, paths, queue, enq>>

\* (mutation of unregistered: no dependency is ever found missing)
unregistered_none(rs, rule) == {}

\* Site::register, `diff`: the dependencies that are not registered names
unregistered(rs, rule) == rule.deps \ RuleNames(rs)

\* Site::register(rule)
RegisterRule(rule) ==
    /\ pc = "idle"
    /\ IF rule.deps # {} /\ unregistered(site_rules, rule) # {}
       THEN /\ pc' = "exit_register"
            /\ UNCHANGED site_rules
       ELSE /\ site_rules' = Append(site_rules, rule)
            /\ UNCHANGED pc
    /\ UNCHANGED <<mvars, completed, left, run, checks, ran, donenow, mode, dequeues,
                   resolved, failed, call, paths_arg>>

Register ==
    /\ Len(site_rules) < MaxRules
    /\ \E rule \in RuleSet : RegisterRule(rule)

\* Manager::build on the manager m: the early return, the resolution, and
\* the jobs that are ready at once; the loop goes on in Dequeue
StartBuild(m) ==
    /\ run' = run + 1
    /\ ran' = {}
    /\ donenow' = {}
    /\ mode' = "build"
    /\ dequeues' = 0
    /\ paths_arg' = {}
    /\ failed' = {}
    /\ UNCHANGED <<site_rules, completed, checks, resolved, call>>
    /\ IF m.count = 0
       THEN /\ Install(m)
            /\ UNCHANGED <<pc, left>>
       ELSE \E r \in resolve_all(m.graph) :
            LET m1 == build_resolved(m, r)
            IN  /\ Install(m1)
                /\ pc' = IF m1.status # "ok" THEN m1.status ELSE "build"
                /\ left' = m.count

\* Manager::update(changed) on the manager m, up to the head of the loop
StartUpdate(m, changed) ==
    /\ run' = run + 1
    /\ ran' = {}
    /\ donenow' = {}
    /\ mode' = "update"
    /\ dequeues' = 0
    /\ failed' = {}
    /\ UNCHANGED <<site_rules, completed, checks, resolved, call>>
    /\ IF update_returns_early(m, changed)
       THEN /\ Install(m)
            /\ paths_arg' = {}
            /\ UNCHANGED <<pc, left>>
       ELSE \E r \in resolve(m.graph, Ascending(matched_names(m, changed))) :
            LET m1 == update_resolved(m, changed, r)
                returns == m1.status = "ok" /\ Len(r.seq) = 0
            IN  /\ Install(IF returns THEN reset(m1) ELSE m1)
                /\ paths_arg' = IF returns THEN {} ELSE changed
                /\ pc' = IF m1.status # "ok" THEN m1.status
                         ELSE IF returns THEN "idle" ELSE "update"
                /\ left' = Len(r.seq)

\* the exit of Site::prepare when the input directory does not exist
InputMissing ==
    /\ pc = "idle"
    /\ run < MaxRuns
    /\ pc' = "exit_input"
    /\ UNCHANGED <<site_rules, mvars, completed, left, run, checks, ran, donenow, mode,
                   dequeues, resolved, failed, call, paths_arg>>

\* Site::build
SiteBuild ==
    /\ pc = "idle"
    /\ run < MaxRuns
    /\ StartBuild(prepare([M EXCEPT !.enq = ZeroEnq]))

\* Site::update(changed)
SiteUpdateWith(changed) ==
    /\ pc = "idle"
    /\ StartUpdate(prepare([M EXCEPT !.enq = ZeroEnq]), changed)

SiteUpdate ==
    /\ run < MaxRuns
    /\ \E changed \in SUBSET Paths : SiteUpdateWith(changed)

\* a worker of the pool: takes a job, processes it, sends it back
Process ==
    /\ pc \in {"idle", "build", "update"}
    /\ \E job \in queue :
        /\ queue' = queue \ {job}
        /\ completed' = Append(completed, Some(process(job)))
        /\ ran' = ran \cup {job.name}
    /\ UNCHANGED <<site_rules, rules, graph, dependencies, waiting, finished, count,
                   paths, enq, pc, left, run, checks, donenow, mode, dequeues, resolved,
                   failed, call, paths_arg>>

\* a worker of the pool whose process() returns Err: the worker sends the
\* mutated job back; the Job has no field that could hold the error
ProcessError ==
    /\ pc \in {"idle", "build", "update"}
    /\ \E job \in queue :
        /\ queue' = queue \ {job}
        /\ completed' = Append(completed, Some(process(job)))
        /\ ran' = ran \cup {job.name}
        /\ failed' = failed \cup {job.name}
    /\ UNCHANGED <<site_rules, rules, graph, dependencies, waiting, finished, count,
                   paths, enq, pc, left, run, checks, donenow, mode, dequeues, resolved,
                   call, paths_arg>>

\* a worker of the pool panics in process(): dequeue will return None
WorkerPanic ==
    /\ pc \in {"idle", "build", "update"}
    /\ \E job \in queue :
        /\ queue' = queue \ {job}
        /\ completed' = Append(completed, None)
    /\ UNCHANGED <<site_rules, rules, graph, dependencies, waiting, finished, count,
                   paths, enq, pc, left, run, checks, ran, donenow, mode, dequeues,
                   resolved, failed, call, paths_arg>>

\* (mutation of dequeued: a None is skipped and the loop goes on)
dequeued_skips_none(m, result, arc) ==
    IF result = None THEN m ELSE handle_done(m, result[1], arc)

\* the match on evaluator.dequeue() in the loop of build / update
dequeued(m, result, arc) ==
    IF result = None
    THEN [m EXCEPT !.status = "exit_worker"]
    ELSE handle_done(m, result[1], arc)

\* one iteration of the loop of build / update: dequeue, handle_done; after
\* the last iteration, reset and the return
Dequeue ==
    /\ pc \in {"build", "update"}
    /\ left > 0
    /\ completed # << >>
    /\ LET result == Head(completed)
           m1 == dequeued(M, result, run)
           returns == m1.status = "ok" /\ left = 1
       IN  /\ Install(IF returns THEN reset(m1) ELSE m1)
           /\ pc' = IF m1.status # "ok" THEN m1.status
                    ELSE IF left = 1 THEN "idle" ELSE pc
           /\ paths_arg' = IF returns THEN {} ELSE paths_arg
           /\ donenow' = IF result = None THEN donenow ELSE donenow \cup {result[1].name}
           /\ dequeues' = IF result = None THEN dequeues ELSE dequeues + 1
    /\ left' = left - 1
    /\ completed' = Tail(completed)
    /\ UNCHANGED <<site_rules, run, checks, ran, mode, resolved, failed, call>>

\* Manager::add, called directly
ManagerAdd ==
    /\ pc = "idle"
    /\ count < MaxAdds
    /\ \E rule \in RuleSet : Install(add(M, rule))
    /\ UNCHANGED <<site_rules, completed, pc, left, run, checks, ran, donenow, mode,
                   dequeues, resolved, failed, call, paths_arg>>

\* Manager::build, called directly
ManagerBuild ==
    /\ pc = "idle"
    /\ run < MaxDirectRuns
    /\ StartBuild([M EXCEPT !.enq = ZeroEnq])

\* Manager::update, called directly
ManagerUpdate ==
    /\ pc = "idle"
    /\ run < MaxDirectRuns
    /\ \E changed \in SUBSET Paths : StartUpdate([M EXCEPT !.enq = ZeroEnq], changed)

vars ==
    <<site_rules, rules, graph, dependencies, waiting, finished, count, paths,
      paths_arg, queue, completed, pc, left, run, checks, enq, ran, donenow, mode,
      dequeues, resolved, failed, call>>

NoResult == [mode |-> "none", starts |-> << >>, ok |-> TRUE, seq |-> << >>]

NoCall == [fn |-> "none"]

ManagerInit ==
    /\ site_rules = << >>
    /\ rules = EmptyMap
    /\ graph = NewGraph
    /\ dependencies = EmptyMap
    /\ waiting = << >>
    /\ finished = EmptyMap
    /\ count = 0
    /\ paths = << >>
    /\ paths_arg = {}
    /\ queue = {}
    /\ completed = << >>
    /\ pc = "idle"
    /\ left = 0
    /\ run = 0
    /\ enq = ZeroEnq
    /\ ran = {}
    /\ donenow = {}
    /\ mode = "none"
    /\ dequeues = 0
    /\ resolved = NoResult
    /\ failed = {}
    /\ call = NoCall

Init == ManagerInit /\ checks \in BOOLEAN

\* the site as a program drives it
Next == Register \/ InputMissing \/ SiteBuild \/ SiteUpdate \/ Process \/ Dequeue

Spec == Init /\ [][Next]_vars

\* the manager driven directly
MNext == ManagerAdd \/ ManagerBuild \/ ManagerUpdate \/ Process \/ Dequeue

MSpec == Init /\ [][MNext]_vars

\* registration alone: the rules a program can get registered
RegisterSpec == Init /\ [][Register]_vars

\* ---------------------------------------------------------------- ItemSpec
\* The manager driven as the site drives it (every rule of the list added
\* before each build / update), by a program that has called update_paths,
\* and whose workers may panic.
ItemNames == 1..MaxItemRules

ItemKinds ==
    {[tag |-> "Creating", pattern |-> {}]} \cup
    {[tag |-> "Matching", pattern |-> S] : S \in SUBSET InputPaths}

ItemRuleSet == [name : ItemNames, deps : SUBSET ItemNames, kind : ItemKinds]

ItemRegister ==
    /\ Len(site_rules) < MaxItemRules
    /\ run = 0
    /\ \E rule \in ItemRuleSet : RegisterRule(rule)

\* Manager::update_paths: the files of the input directory, in the order
\* the walk yields them
UpdatePaths ==
    /\ pc = "idle"
    /\ run = 0
    /\ paths = << >>
    /\ \E S \in SUBSET InputPaths : \E found \in SetToSeqs(S) : paths' = found
    /\ UNCHANGED <<site_rules, rules, graph, dependencies, waiting, finished, count,
                   queue, enq, completed, pc, left, run, checks, ran, donenow, mode,
                   dequeues, resolved, failed, call, paths_arg>>

ItemBuild ==
    /\ pc = "idle"
    /\ run < MaxItemRuns
    /\ StartBuild(prepare([M EXCEPT !.enq = ZeroEnq]))

ItemUpdate ==
    /\ pc = "idle"
    /\ run < MaxItemRuns
    /\ \E changed \in SUBSET InputPaths :
        StartUpdate(prepare([M EXCEPT !.enq = ZeroEnq]), changed)

ItemNext ==
    \/ ItemRegister \/ UpdatePaths \/ ItemBuild \/ ItemUpdate
    \/ Process \/ ProcessError \/ WorkerPanic \/ Dequeue

ItemSpec == Init /\ [][ItemNext]_vars

\* ---------------------------------------------------------------- HandleSpec
\* The handlers, the routes, the iteration of a bind and the write handler,
\* each called on inputs drawn from small sets; `call` records the call.
MaxHandler == 2
MaxChain == 3
MaxItems == 2

HandlerIds == 1..MaxHandler
ItemIds == 1..MaxItems
\* what a handler is called on: the bind (0) or one of its items
BindTarget == 0
Targets == {BindTarget} \cup ItemIds
Chains == UNION {[1..n -> HandlerIds] : n \in 0..MaxChain}
\* the calls that fail: handler h returns Err when it is called on target t
Failing == SUBSET (HandlerIds \X Targets)

\* Result: Ok(()) or Err(e), e naming the call that produced it
Ok == [ok |-> TRUE, err |-> << >>]
Err(h, t) == [ok |-> FALSE, err |-> <<h, t>>]

\* handler.handle(target)
handle(h, F, t) == IF <<h, t>> \in F THEN Err(h, t) ELSE Ok

\* the loop `for handler in &self.handlers { try!(handler.handle(t)); } Ok(())`
\* from handler i on; trace: the calls made so far, in the order made
RECURSIVE chain_loop(_, _, _, _, _)
chain_loop(handlers, F, t, i, trace) ==
    IF i > Len(handlers)
    THEN [trace |-> trace, res |-> Ok]
    ELSE LET res == handle(handlers[i], F, t)
             trace1 == Append(trace, <<handlers[i], t>>)
         IN  IF ~res.ok
             THEN [trace |-> trace1, res |-> res]
             ELSE chain_loop(handlers, F, t, i + 1, trace1)

\* (mutation of chain_handle: without try!, an error does not stop the chain)
chain_handle_no_try(handlers, F, t) ==
    LET bad == {i \in 1..Len(handlers) : <<handlers[i], t>> \in F}
    IN  [trace |-> [i \in 1..Len(handlers) |-> <<handlers[i], t>>],
         res |-> IF bad = {} THEN Ok
                 ELSE Err(handlers[CHOOSE i \in bad : \A j \in bad : i <= j], t)]

\* BindChain::handle, <ItemChain as item::Handler>::handle, Chain<Item>::handle
chain_handle(handlers, F, t) == chain_loop(handlers, F, t, 1, << >>)

\* everything but `call`
not_call ==
    <<site_rules, rules, graph, dependencies, waiting, finished, count, paths,
      paths_arg, queue, completed, pc, left, run, checks, enq, ran, donenow, mode,
      dequeues, resolved, failed>>

HInit == ManagerInit /\ checks = FALSE

\* a chain is called on a bind or on an item
ChainHandle ==
    /\ call = NoCall
    /\ \E handlers \in Chains, F \in Failing, t \in Targets :
        call' = [fn |-> "chain", handlers |-> handlers, failing |-> F, target |-> t,
                 out |-> chain_handle(handlers, F, t)]
    /\ UNCHANGED not_call

\* Bind.items of the bind the chain is called on: distinct items
ItemLists == {its \in UNION {[1..n -> ItemIds] : n \in 0..MaxItems} :
                 \A i, j \in 1..Len(its) : its[i] = its[j] => i = j}

\* the loop `for item in &mut binding.items { try!(ItemChain::handle(self, item)); }`
\* from item i on
RECURSIVE bind_loop(_, _, _, _, _)
bind_loop(handlers, F, its, i, trace) ==
    IF i > Len(its)
    THEN [trace |-> trace, res |-> Ok]
    ELSE LET r == chain_handle(handlers, F, its[i])
         IN  IF ~r.res.ok
             THEN [trace |-> trace \o r.trace, res |-> r.res]
             ELSE bind_loop(handlers, F, its, i + 1, trace \o r.trace)

\* (mutation of item_chain_handle: each handler is applied to every item
\* before the next handler is)
item_chain_handle_by_handler(handlers, F, its) ==
    LET n == Len(its)
        calls == [k \in 1..(Len(handlers) * n) |->
                     <<handlers[((k - 1) \div n) + 1], its[((k - 1) % n) + 1]>>]
        bad == {k \in DOMAIN calls : calls[k] \in F}
        last == IF bad = {} THEN Len(calls) ELSE CHOOSE k \in bad : \A j \in bad : k <= j
    IN  [trace |-> SubSeq(calls, 1, last),
         res |-> IF bad = {} THEN Ok ELSE Err(calls[last][1], calls[last][2])]

\* <ItemChain as binding::Handler>::handle
item_chain_handle(handlers, F, its) == bind_loop(handlers, F, its, 1, << >>)

\* an item chain is called as the handler of a bind
ItemChainHandle ==
    /\ call = NoCall
    /\ \E handlers \in Chains, F \in SUBSET (HandlerIds \X ItemIds), its \in ItemLists :
        call' = [fn |-> "item_chain", handlers |-> handlers, failing |-> F,
                 items |-> its, out |-> item_chain_handle(handlers, F, its)]
    /\ UNCHANGED not_call

MaxRoutePath == 3
RoutePaths == 1..MaxRoutePath
Routes ==
    {Read(a) : a \in RoutePaths} \cup {Write(a) : a \in RoutePaths}
        \cup {ReadWrite(a, b) : a \in RoutePaths, b \in RoutePaths}
\* the router: Fn(&Path) -> PathBuf
Routers == [RoutePaths -> RoutePaths]

\* Item::route(router), on a new item or on the item routed before
RouteTo ==
    /\ \E router \in Routers :
        \/ /\ call = NoCall
           /\ \E route \in Routes :
                call' = [fn |-> "route_to", original |-> route, before |-> route,
                         router |-> router, route |-> route_to(route, router)]
        \/ /\ call.fn = "route_to"
           /\ call' = [call EXCEPT !.before = call.route, !.router = router,
                                   !.route = route_to(call.route, router)]
    /\ UNCHANGED not_call

MaxBindItems == 3
\* the binds iterated: item i reads path i; any item and the bind itself may
\* be flagged
IterBinds ==
    {[Bind_new(1, EmptyMap) EXCEPT
        !.stale = partial,
        !.items = [i \in 1..n |-> set_stale_item(Item_new(Read(i)), i \in flagged)]] :
     partial \in BOOLEAN, n \in 0..MaxBindItems, flagged \in SUBSET (1..MaxBindItems)}

\* a handler walks a bind
Iterate ==
    /\ call = NoCall
    /\ \E bind \in IterBinds :
        call' = [fn |-> "iter", bind |-> bind, iter |-> iter(bind),
                 iter_mut |-> iter_mut(bind), items |-> Bind_items(bind),
                 items_mut |-> Bind_items_mut(bind)]
    /\ UNCHANGED not_call

MaxComps == 2
\* a path: absolute or relative, and its components; ".." is the parent
Comps == {"..", "out", "a"}
FsPaths == [abs : BOOLEAN, comps : UNION {[1..n -> Comps] : n \in 0..MaxComps}]
\* configuration.output
Outputs == {[abs |-> FALSE, comps |-> <<"out">>], [abs |-> TRUE, comps |-> <<"out">>]}
\* the directory the program runs in
Cwd == <<"w">>

\* Path::join: an absolute path replaces the base
join(base, path) ==
    IF path.abs THEN path ELSE [abs |-> base.abs, comps |-> base.comps \o path.comps]

\* Path::starts_with: whole components are compared, as they are written
starts_with(path, base) ==
    /\ path.abs = base.abs
    /\ Len(base.comps) <= Len(path.comps)
    /\ SubSeq(path.comps, 1, Len(base.comps)) = base.comps

\* the file system's resolution of components: ".." goes to the parent, the
\* parent of the root is the root
RECURSIVE walk(_, _)
walk(at, comps) ==
    IF comps = << >> THEN at
    ELSE IF Head(comps) = ".."
         THEN walk(IF at = << >> THEN at ELSE SubSeq(at, 1, Len(at) - 1), Tail(comps))
         ELSE walk(Append(at, Head(comps)), Tail(comps))

\* where the file system finds a path
location(path) == walk(IF path.abs THEN << >> ELSE Cwd, path.comps)

\* File::create(path): an empty path or one that ends in ".." names a
\* directory, create fails and unwrap panics; otherwise the file is created or
\* truncated
create(path) ==
    IF path.comps = << >> \/ path.comps[Len(path.comps)] = ".."
    THEN [effect |-> "panic", file |-> << >>]
    ELSE [effect |-> "write", file |-> location(path)]

\* compiler::write: `to` is item.to, has_body whether item.body is Some
compiler_write(output, to, has_body) ==
    IF to = None \/ ~has_body
    THEN [effect |-> "none", file |-> << >>]
    ELSE LET target == join(output, to[1])
         IN  IF ~starts_with(target, output)
             THEN [effect |-> "exit", file |-> << >>]
             ELSE create(join(output, to[1]))

\* util::handle::item::write: `to` is item.writing()
write(to) ==
    IF to = None
    THEN [effect |-> "none", file |-> << >>]
    ELSE create(to[1])

CompilerWrite ==
    /\ call = NoCall
    /\ \E output \in Outputs, to \in {None} \cup {Some(path) : path \in FsPaths},
          has_body \in BOOLEAN :
        call' = [fn |-> "compiler_write", output |-> output, to |-> to,
                 out |-> compiler_write(output, to, has_body)]
    /\ UNCHANGED not_call

HandleWrite ==
    /\ call = NoCall
    /\ \E output \in Outputs, to \in {None} \cup {Some(path) : path \in FsPaths} :
        call' = [fn |-> "write", output |-> output, to |-> to, out |-> write(to)]
    /\ UNCHANGED not_call

\* the finished binds update may find: up to MaxDirtyItems items, none of
\* them stale, with any routes (a handler may have added or routed items)
MaxDirtyItems == 2
DirtyBinds ==
    {[Bind_new(1, EmptyMap) EXCEPT
        !.arc = 1,
        !.items = [i \in 1..Len(routes) |-> Item_new(routes[i])]] :
     routes \in UNION {[1..n -> Routes] : n \in 0..MaxDirtyItems}}

\* step 1 of Manager::update for one finished Matching bind
Dirty ==
    /\ call = NoCall
    /\ \E bind \in DirtyBinds, pattern \in SUBSET RoutePaths, changed \in SUBSET RoutePaths :
        call' = [fn |-> "modified", bind |-> bind, pattern |-> pattern,
                 changed |-> changed,
                 out |-> modified(bind, [tag |-> "Matching", pattern |-> pattern], changed)]
    /\ UNCHANGED not_call

HandleNext ==
    \/ ChainHandle \/ ItemChainHandle \/ RouteTo \/ Iterate
    \/ CompilerWrite \/ HandleWrite \/ Dirty

HandleSpec == HInit /\ [][HandleNext]_vars

\* ---------------------------------------------------------------- GraphSpec
manager_only ==
    <<site_rules, rules, dependencies, waiting, finished, count, paths, paths_arg,
      queue, completed, pc, left, run, checks, enq, ran, donenow, mode, dequeues,
      failed, call>>

GInit == ManagerInit /\ checks = FALSE

GAddNode ==
    \E n \in Names :
        /\ graph' = add_node(graph, n)
        /\ resolved' = NoResult
        /\ UNCHANGED manager_only

GAddEdge ==
    \E a \in Names, b \in Names :
        /\ Cardinality(EdgeSet(graph) \cup {<<a, b>>}) <= MaxEdges
        /\ graph' = add_edge(graph, a, b)
        /\ resolved' = NoResult
        /\ UNCHANGED manager_only

GResolveAll ==
    /\ resolved.mode = "none"
    /\ \E r \in resolve_all(graph) :
        resolved' = [mode |-> "all", starts |-> << >>, ok |-> r.ok, seq |-> r.seq]
    /\ UNCHANGED <<graph, manager_only>>

GResolveOnly ==
    /\ resolved.mode = "none"
    /\ \E n \in Names : \E r \in resolve_only(graph, n) :
        resolved' = [mode |-> "only", starts |-> <<n>>, ok |-> r.ok, seq |-> r.seq]
    /\ UNCHANGED <<graph, manager_only>>

GResolve ==
    /\ resolved.mode = "none"
    /\ \E S \in { T \in SUBSET Names : Cardinality(T) <= MaxStarts } :
       \E starts \in SetToSeqs(S) : \E r \in resolve(graph, starts) :
        resolved' = [mode |-> "from", starts |-> starts, ok |-> r.ok, seq |-> r.seq]
    /\ UNCHANGED <<graph, manager_only>>

GNext == GAddNode \/ GAddEdge \/ GResolveAll \/ GResolveOnly \/ GResolve

GraphSpec == GInit /\ [][GNext]_vars

\* ---------------------------------------------------------------- scheduler claims
\* the declared dependencies of a rule, and all rules it rests on
DeclaredDeps(name) == IF name \in DOMAIN rules THEN rules[name].deps ELSE {}

RECURSIVE Ancestors(_)
Ancestors(S) ==
    LET T == S \cup UNION { DeclaredDeps(n) : n \in S }
    IN  IF T = S THEN S ELSE Ancestors(T)

TransitiveDeps(name) == Ancestors(DeclaredDeps(name))

UniqueNames(rs) == \A i, j \in 1..Len(rs) : rs[i].name = rs[j].name => i = j

QueuedNames == { job.name : job \in queue }

\* C1: in a full build a job is in the evaluator's hands only after every rule
\* it (transitively) depends on has run and been installed into `finished`
\* by handle_done in this build.
C1_EnqueuedAfterDependencies ==
    pc = "build" =>
        \A job \in queue : \A d \in TransitiveDeps(job.name) :
            /\ d \in ran
            /\ d \in donenow
            /\ d \in DOMAIN finished
            /\ finished[d].arc = run

\* C2: when a full build returns, it has dequeued exactly as many completed
\* jobs as there are rules and `finished` has exactly the rule names as keys.
C2_BuildCompletesEveryRule ==
    (mode = "build" /\ pc = "idle" /\ UniqueNames(site_rules)) =>
        /\ dequeues = Cardinality(DOMAIN rules)
        /\ DOMAIN finished = DOMAIN rules

C2_Witness ==
    /\ mode = "build"
    /\ pc = "idle"
    /\ UniqueNames(site_rules)
    /\ dequeues = 3
    /\ Cardinality(DOMAIN finished) = 3
    /\ run = 2

\* C3: no job is enqueued twice in one build or one update, and when a full
\* build returns every rule's job has been enqueued exactly once.
C3_EnqueuedOnce ==
    /\ \A n \in Names : enq[n] <= 1
    /\ (mode = "build" /\ pc = "idle") => \A n \in DOMAIN rules : enq[n] = 1

C3_Witness ==
    /\ mode = "update"
    /\ pc = "idle"
    /\ Cardinality({ n \in Names : enq[n] = 1 }) >= 2

\* C4: a full build over registered rules with distinct names ends with its
\* return: it does not abort, and while completions are expected there is a
\* job in flight for the manager to dequeue.
C4_BuildTerminates ==
    (mode = "build" /\ UniqueNames(site_rules)) =>
        /\ pc \notin {"panic", "exit"}
        /\ pc = "build" => (queue # {} \/ completed # << >>)

\* C5: in a full build the dependency map of a dispatched job holds, for each
\* direct dependency, the bind handle_done installed for it in this build.
C5_DependencySnapshot ==
    pc = "build" =>
        \A job \in queue : \A d \in DeclaredDeps(job.name) :
            /\ d \in DOMAIN job.deps
            /\ d \in DOMAIN finished
            /\ job.deps[d] = finished[d].arc
            /\ job.deps[d] = run

\* C6: a build over a graph with a directed cycle exits at the resolution:
\* nothing is enqueued, no handler runs, `finished` stays as it was.
IsBuildCall == pc = "idle" /\ mode' = "build" /\ run' = run + 1

C6_CycleAbortsBuild ==
    [][(IsBuildCall /\ HasCycle(graph)) =>
            /\ pc' = "exit"
            /\ enq' = ZeroEnq
            /\ UNCHANGED <<finished, queue, completed>>]_vars

C6_Witness ==
    /\ mode = "build"
    /\ pc = "exit"
    /\ HasCycle(graph)
    /\ Cardinality(nodes(graph)) >= 2

\* what the claim says a registration does: exit and nothing appended when
\* a dependency is not a registered name, the rule appended otherwise
RegisterOutcome(rule) ==
    IF \E d \in rule.deps : \A i \in 1..Len(site_rules) : site_rules[i].name # d
    THEN pc' = "exit_register" /\ site_rules' = site_rules
    ELSE pc' = "idle" /\ site_rules' = site_rules \o <<rule>>

\* C11: registering a rule with a dependency that is not an already
\* registered name exits the process and appends nothing; registering a rule
\* whose dependencies are all registered (or which has none) appends it.
C11_RegisterChecksDependencies ==
    [][\A rule \in RuleSet : RegisterRule(rule) => RegisterOutcome(rule)]_vars

C11_Witness ==
    /\ pc = "exit_register"
    /\ Len(site_rules) = 2
    /\ site_rules[2].deps = {site_rules[1].name}

\* C12: registered rules have pairwise distinct names, and so have the jobs
\* in `waiting`.
C12_NamesDistinct ==
    /\ UniqueNames(site_rules)
    /\ \A i, j \in 1..Len(waiting) : waiting[i].name = waiting[j].name => i = j

\* ---------------------------------------------------------------- update claims
\* the finished Matching rules, by the rule table rs, whose pattern matches
\* one of the changed paths
MatchedIn(rs, changed) ==
    { n \in (DOMAIN finished) \cap (DOMAIN rs) :
        /\ rs[n].kind.tag = "Matching"
        /\ rs[n].kind.pattern \cap changed # {} }

\* the affected closure of the update in progress
AffectedClosure == Closure(graph, MatchedIn(rules, paths_arg))

IsUpdateCall == pc = "idle" /\ mode' = "update" /\ run' = run + 1

\* every step of an update leaves the finished binds outside the closure as
\* they were, runs no handler outside the closure, and has run every handler
\* of the closure when it returns
UpdateFrame ==
    [][/\ IsUpdateCall => finished' = finished
       /\ pc = "update" =>
            /\ ran' \subseteq AffectedClosure
            /\ \A n \in (DOMAIN finished) \ AffectedClosure :
                    n \in DOMAIN finished' /\ finished'[n] = finished[n]
            /\ pc' = "idle" => ran' = AffectedClosure]_vars

\* C13: the handlers an update runs are exactly those of the dependents
\* closure of the matched rules: none outside the closure runs, and the
\* update does not come to rest (nothing in flight) before every rule of the
\* closure has run.
C13_UpdateRunsExactlyTheClosure ==
    pc = "update" =>
        /\ ran \subseteq AffectedClosure
        /\ (queue = {} /\ completed = << >>) => ran = AffectedClosure

\* C14: an update whose paths match the pattern of no finished Matching rule
\* (the empty path set included) returns at once: nothing is enqueued, no
\* completion is dequeued and `finished` is unchanged.
C14_NoMatchNoWork ==
    [][\A changed \in SUBSET Paths :
          (IsUpdateCall /\ MatchedIn(rules', changed) = {} /\ SiteUpdateWith(changed)) =>
              /\ pc' = "idle"
              /\ enq' = ZeroEnq
              /\ dequeues' = 0
              /\ UNCHANGED <<finished, queue, completed>>]_vars

C14_Witness ==
    /\ mode = "update"
    /\ pc = "idle"
    /\ count > 0
    /\ enq = ZeroEnq
    /\ \E n \in DOMAIN finished : rules[n].kind.tag = "Matching"

\* C15: during an update a job is in the evaluator's hands only after every
\* dependency of its rule that is in the affected closure has completed in
\* this update.
C15_UpdateOrder ==
    pc = "update" =>
        \A job \in queue : \A d \in DeclaredDeps(job.name) \cap AffectedClosure :
            d \in donenow

\* C16: during an update the bind a handler has worked on holds, for each
\* dependency of its rule, the bind that dependency produced in this update
\* when it is in the affected closure, and its finished bind otherwise.
C16_UpdateObservedDependencies ==
    pc = "update" =>
        \A i \in 1..Len(completed) : completed[i] # None =>
            LET job == completed[i][1]
                bind == into_bind(job)
            IN  \A d \in DeclaredDeps(job.name) :
                    /\ d \in DOMAIN bind.deps
                    /\ d \in DOMAIN finished
                    /\ bind.deps[d] = IF d \in AffectedClosure THEN run ELSE finished[d].arc

\* C17: while an update expects completions there is a job in flight for it
\* to dequeue: no rule of the closure is left waiting for ever.
C17_UpdateTerminates ==
    pc = "update" => (queue # {} \/ completed # << >>)

\* C18: a remaining-dependency count is never decremented below zero.
C18_NoUnderflow ==
    \A n \in DOMAIN dependencies : dependencies[n] >= 0

\* C19: a bind in `finished` (installed by handle_done) is not stale and has
\* no stale item; so the partial iteration over the dirtied clone an update
\* attaches to a job yields only items whose path this update changed.
C19_InstalledBindIsClean ==
    /\ \A n \in DOMAIN finished :
        /\ ~finished[n].stale
        /\ \A i \in 1..Len(finished[n].items) : ~finished[n].items[i].stale
    /\ pc = "update" =>
        \A job \in queue : job.bind # None =>
            \A i \in 1..Len(iter(into_bind(job))) :
                iter(into_bind(job))[i].route.from \in paths_arg

\* what the manager owns: no step of a worker changes any of it
ManagerState == <<finished, enq, waiting, graph, dependencies, count, donenow, dequeues>>

\* C20: when the loop of build or update dequeues a None the manager exits
\* there and then: that step handles no job and enqueues none, and from then
\* on it installs nothing, enqueues nothing, and neither resets nor returns.
C20_WorkerPanicAborts ==
    [][/\ ( /\ pc \in {"build", "update"}
            /\ completed # << >>
            /\ Head(completed) = None
            /\ completed' = Tail(completed) ) =>
                /\ pc' = "exit_worker"
                /\ queue' = queue
                /\ UNCHANGED ManagerState
       /\ pc = "exit_worker" =>
                /\ pc' = "exit_worker"
                /\ queue' \subseteq queue
                /\ UNCHANGED ManagerState]_vars

C20_Witness ==
    /\ pc = "exit_worker"
    /\ mode = "update"
    /\ completed # << >>
    /\ Head(completed) # None

\* ---------------------------------------------------------------- graph claims
NoDuplicates(seq) == \A i, j \in 1..Len(seq) : seq[i] = seq[j] => i = j

RespectsEdges(g, seq) ==
    \A e \in EdgeSet(g) :
        (e[1] \in Range(seq) /\ e[2] \in Range(seq)) =>
            IndexOf(seq, e[1]) < IndexOf(seq, e[2])

\* C7: on an acyclic graph the full resolution returns an ordering that holds
\* every node of the graph exactly once (a node that is only the target of an
\* edge included) and puts u before v for every edge u -> v.
C7_ResolveAllIsTopological ==
    (resolved.mode = "all" /\ ~HasCycle(graph)) =>
        /\ resolved.ok
        /\ Range(resolved.seq) = AllNodes(graph)
        /\ NoDuplicates(resolved.seq)
        /\ RespectsEdges(graph, resolved.seq)

C7_Witness ==
    /\ resolved.mode = "all"
    /\ ~HasCycle(graph)
    /\ resolved.ok
    /\ Cardinality(EdgeSet(graph)) >= 3
    /\ AllNodes(graph) \ nodes(graph) # {}

\* C8: the full resolution returns an error exactly when the graph has a
\* directed cycle, whatever node the search starts from.
C8_ErrIffCycle ==
    resolved.mode = "all" => (resolved.ok <=> ~HasCycle(graph))

C8_Witness ==
    /\ resolved.mode = "all"
    /\ ~resolved.ok
    /\ \E n \in nodes(graph) : n \notin Closure(graph, Succ(graph, {n}))

IsWalk(g, seq) ==
    \A i \in 1..(Len(seq) - 1) : <<seq[i], seq[i + 1]>> \in EdgeSet(g)

\* C9: the path returned by a failed resolution is a closed walk: every
\* consecutive pair is an edge and the last element equals the first.
C9_CyclePathIsClosedWalk ==
    (resolved.mode = "all" /\ ~resolved.ok) =>
        /\ Len(resolved.seq) >= 2
        /\ IsWalk(graph, resolved.seq)
        /\ resolved.seq[Len(resolved.seq)] = resolved.seq[1]

C21_HandlerErrorIsFatal ==
    \A n \in failed :
        /\ ~(n \in DOMAIN finished /\ finished[n].arc = run)
        /\ n \notin donenow

\* the error of rule 1 is lost: its bind is installed by this run and the
\* job of a rule that depends on it has been dispatched
C21_ErrorIsLost ==
    \E n \in failed :
        /\ n \in DOMAIN finished
        /\ finished[n].arc = run
        /\ \E job \in queue : n \in rules[job.name].deps

\* ---------------------------------------------------------------- handler claims
\* the first handler of the chain that fails on the target (0: none does)
FirstFailing(handlers, F, t) ==
    IF \E i \in 1..Len(handlers) : <<handlers[i], t>> \in F
    THEN CHOOSE i \in 1..Len(handlers) :
            /\ <<handlers[i], t>> \in F
            /\ \A j \in 1..(i - 1) : <<handlers[j], t>> \notin F
    ELSE 0

\* the calls a chain is to make on one target, and what it is to return
ChainCalls(handlers, F, t) ==
    LET k == FirstFailing(handlers, F, t)
        n == IF k = 0 THEN Len(handlers) ELSE k
    IN  [i \in 1..n |-> <<handlers[i], t>>]

ChainResult(handlers, F, t) ==
    LET k == FirstFailing(handlers, F, t)
    IN  IF k = 0 THEN Ok ELSE Err(handlers[k], t)

\* C22: a chain h1..hn calls its handlers on the target in the declared
\* order, stops at the first one that returns an error and returns that
\* error; it succeeds only when every handler does; the empty chain succeeds
\* and calls nothing.
C22_ChainStopsAtFirstError ==
    call.fn = "chain" =>
        /\ call.out.trace = ChainCalls(call.handlers, call.failing, call.target)
        /\ call.out.res = ChainResult(call.handlers, call.failing, call.target)
        /\ call.out.res.ok <=>
            \A i \in 1..Len(call.handlers) :
                <<call.handlers[i], call.target>> \notin call.failing
        /\ call.handlers = << >> => (call.out.res = Ok /\ call.out.trace = << >>)

\* a chain of three handlers whose second fails: the third is not called
C22_Witness ==
    /\ call.fn = "chain"
    /\ Len(call.handlers) = 3
    /\ FirstFailing(call.handlers, call.failing, call.target) = 2
    /\ <<call.handlers[3], call.target>> \in call.failing
    /\ Len(call.out.trace) = 2
    /\ call.out.res = Err(call.handlers[2], call.target)

\* the first item of the list on which some handler of the chain fails
\* (0: there is none)
FirstFailingItem(handlers, F, its) ==
    LET bad == {i \in 1..Len(its) : FirstFailing(handlers, F, its[i]) # 0}
    IN  IF bad = {} THEN 0 ELSE CHOOSE i \in bad : \A j \in bad : i <= j

\* the whole chain applied to the items one after the other, up to item n
RECURSIVE ChainPerItem(_, _, _, _)
ChainPerItem(handlers, F, its, n) ==
    IF n = 0 THEN << >>
    ELSE ChainPerItem(handlers, F, its, n - 1) \o ChainCalls(handlers, F, its[n])

\* C23: an item chain used as the handler of a bind does what applying the
\* whole chain to each item of the bind, in the order of the items, does; the
\* first item on which it fails ends the handling of the bind with that
\* error, and no later item is handled.
C23_ItemChainOverBind ==
    call.fn = "item_chain" =>
        LET k == FirstFailingItem(call.handlers, call.failing, call.items)
            n == IF k = 0 THEN Len(call.items) ELSE k
        IN  /\ call.out.trace = ChainPerItem(call.handlers, call.failing, call.items, n)
            /\ call.out.res = IF k = 0 THEN Ok
                              ELSE ChainResult(call.handlers, call.failing, call.items[k])
            /\ \A j \in (n + 1)..Len(call.items) :
                \A c \in 1..Len(call.out.trace) : call.out.trace[c][2] # call.items[j]

\* two handlers and two items, the second handler fails on the first item:
\* the second item is not handled at all
C23_Witness ==
    /\ call.fn = "item_chain"
    /\ Len(call.handlers) = 2
    /\ Len(call.items) = 2
    /\ FirstFailing(call.handlers, call.failing, call.items[1]) = 2
    /\ Len(call.out.trace) = 2
    /\ ~call.out.res.ok

\* C24: route_to keeps the source path of a route: Read(src) becomes
\* ReadWrite(src, f(src)), ReadWrite(src, _) becomes ReadWrite(src, f(src)),
\* Write(dst) stays a Write; after any number of route_to calls reading() is
\* what it was on the original route.
C24_RoutePreservesSource ==
    call.fn = "route_to" =>
        /\ call.before.tag = "Read" =>
            call.route = ReadWrite(call.before.from, call.router[call.before.from])
        /\ call.before.tag = "ReadWrite" =>
            call.route = ReadWrite(call.before.from, call.router[call.before.from])
        /\ call.before.tag = "Write" => call.route.tag = "Write"
        /\ reading(call.route) = reading(call.before)
        /\ reading(call.route) = reading(call.original)

\* a Read route routed twice, by routers that move its target away from the
\* source: it still reads from the original source
C24_Witness ==
    /\ call.fn = "route_to"
    /\ call.original.tag = "Read"
    /\ call.before.tag = "ReadWrite"
    /\ call.before.to # call.before.from
    /\ call.route.to # call.before.to
    /\ reading(call.route) = Some(call.original.from)

\* ---------------------------------------------------------------- job claims
\* the jobs the workers have sent back and the manager has not dequeued yet
CompletedJobs == {completed[i][1] : i \in {k \in 1..Len(completed) : completed[k] # None}}

\* C25: the bind a job builds on its first run (a full bind) holds, for a Matching rule,
\* exactly one Read item for each path of the shared path list that matches the
\* pattern, in the order of the list, and no other item; for a Creating rule
\* it holds no item.
C25_FirstRunPopulates ==
    \A job \in CompletedJobs :
        LET bind == into_bind(job)
        IN  ~bind.stale =>
                IF job.kind.tag = "Creating"
                THEN bind.items = << >>
                ELSE /\ \A i \in 1..Len(bind.items) :
                          /\ bind.items[i].route.tag = "Read"
                          /\ bind.items[i].route.from \in Range(paths) \cap job.kind.pattern
                     /\ \A path \in Range(paths) \cap job.kind.pattern :
                          Cardinality({i \in 1..Len(bind.items) :
                                          bind.items[i].route = Read(path)}) = 1
                     /\ \A i, j \in 1..Len(bind.items) :
                          i < j => IndexOf(paths, bind.items[i].route.from)
                                     < IndexOf(paths, bind.items[j].route.from)

\* two files in the input directory, a Matching rule whose pattern matches
\* one of them and a Creating rule: both have been processed for the first time
C25_Witness ==
    /\ Len(paths) = 2
    /\ \E job \in CompletedJobs :
        /\ job.kind.tag = "Matching"
        /\ ~into_bind(job).stale
        /\ Len(into_bind(job).items) = 1
    /\ \E job \in CompletedJobs :
        /\ job.kind.tag = "Creating"
        /\ ~into_bind(job).stale

\* the routes of the items of a bind, in order
RoutesOf(bind) == [i \in 1..Len(bind.items) |-> bind.items[i].route]

\* C26: a job that already carries a bind when it is processed (a re-run: the
\* bind is the dirtied clone update attached) is
\* not populated again: the bind it comes back with has the items of the bind
\* installed for its rule before, no more, and no path twice.
C26_RerunKeepsItems ==
    \A job \in CompletedJobs :
        LET bind == into_bind(job)
        IN  bind.stale =>
                /\ job.name \in DOMAIN finished
                /\ RoutesOf(bind) = RoutesOf(finished[job.name])
                /\ \A i, j \in 1..Len(bind.items) :
                      bind.items[i].route = bind.items[j].route => i = j

\* a Matching rule with two items is processed again in an update
C26_Witness ==
    /\ mode = "update"
    /\ \E job \in CompletedJobs :
        /\ into_bind(job).stale
        /\ job.kind.tag = "Matching"
        /\ Len(into_bind(job).items) = 2
        /\ Range(job.paths) \cap job.kind.pattern # {}

\* ---------------------------------------------------------------- bind claims
\* the positions of the flagged items of a bind, and the k-th of them
StalePositions(bind) == {i \in 1..Len(bind.items) : bind.items[i].stale}

KthStale(bind, k) ==
    CHOOSE i \in StalePositions(bind) :
        Cardinality({j \in StalePositions(bind) : j <= i}) = k

\* C27: iter and iter_mut yield every item of the bind, in order, when the
\* bind is not flagged partial, and exactly the items whose stale flag is set,
\* in order, when it is; items and items_mut always give every item.
C27_IterationModes ==
    call.fn = "iter" =>
        /\ call.items = call.bind.items
        /\ call.items_mut = call.bind.items
        /\ call.iter_mut = call.iter
        /\ ~call.bind.stale => call.iter = call.bind.items
        /\ call.bind.stale =>
            /\ Len(call.iter) = Cardinality(StalePositions(call.bind))
            /\ \A k \in 1..Len(call.iter) :
                call.iter[k] = call.bind.items[KthStale(call.bind, k)]

\* a partial bind of three items, the first and the last flagged
C27_Witness ==
    /\ call.fn = "iter"
    /\ call.bind.stale
    /\ StalePositions(call.bind) = {1, 3}
    /\ Len(call.iter) = 2
    /\ Len(call.items) = 3

\* ---------------------------------------------------------------- write claims
\* the file lies in the output directory or below it
InsideOutput(output, file) ==
    LET root == location(output)
    IN  /\ Len(root) <= Len(file)
        /\ SubSeq(file, 1, Len(root)) = root

\* C28: the write handler never creates or overwrites a file outside the
\* configured output directory; an item whose write path resolves outside
\* of it (an absolute path, ".." components) is a fatal error, not a write.
C28_WritesStayInOutput ==
    (call.fn \in {"compiler_write", "write"} /\ call.out.effect = "write") =>
        InsideOutput(call.output, call.out.file)

\* the check of compiler::write passes for a path with a ".." component and
\* the file is created next to the output directory
C28_CompilerWriteEscapes ==
    /\ call.fn = "compiler_write"
    /\ call.to = Some([abs |-> FALSE, comps |-> <<"..", "a">>])
    /\ call.out.effect = "write"
    /\ ~InsideOutput(call.output, call.out.file)

\* ---------------------------------------------------------------- sort_jobs claims
WaitingNames == [i \in 1..Len(waiting) |-> waiting[i].name]

\* the finished Matching rules the update in progress did not match
DidntMatch ==
    {name \in DOMAIN finished :
        /\ rules[name].kind.tag = "Matching"
        /\ \A path \in paths_arg : ~matches(rules[name].kind, path)}

\* C29: sort_jobs leaves the waiting jobs in the given order and sets
\* dependencies[r], for every rule r of the order, to
\* graph.dependency_count(r), whatever the entry held from an earlier build
\* or update. Seen at the head of the loop: in a build nothing touches the
\* counts after sort_jobs; in an update the dependencies that were finished
\* Matching rules the update did not match have been subtracted from them.
\* The jobs enqueue_ready leaves in `waiting` are still in a topological order.
C29_SortJobsSetsCounts ==
    [][/\ (IsBuildCall /\ pc' = "build") =>
            /\ \A r \in AllNodes(graph') :
                  dependencies'[r] = dependency_count(graph', r)
            /\ NoDuplicates(WaitingNames')
            /\ RespectsEdges(graph', WaitingNames')
       /\ (IsUpdateCall /\ pc' = "update") =>
            /\ \A r \in AffectedClosure' :
                  dependencies'[r] =
                      dependency_count(graph', r)
                        - Cardinality(dependencies_of(graph', r) \cap DidntMatch')
            /\ NoDuplicates(WaitingNames')
            /\ RespectsEdges(graph', WaitingNames')
      ]_vars

\* C30: at every call of sort_jobs made through Site::build or Site::update
\* the assertion holds: `waiting` has as many jobs as the resolved order has
\* names. Site::update builds `waiting` from the order itself; Site::build
\* sorts the jobs Site::prepare has just added to those already waiting, and
\* its order is a resolution of the whole graph. Stated for rules registered
\* under distinct names.
C30_SortJobsAssertion ==
    [][(IsBuildCall /\ UniqueNames(site_rules) /\ count' > 0 /\ pc' # "exit") =>
            Len(waiting) + Len(site_rules) = Cardinality(AllNodes(graph'))
      ]_vars

\* a build called after an update that matched nothing: the jobs of the
\* update's prepare are still waiting and the assertion fails
C30_AssertionFails ==
    /\ pc = "panic"
    /\ mode = "build"
    /\ run = 2
    /\ Len(site_rules) = 1
    /\ Len(waiting) = 2
    /\ Cardinality(AllNodes(graph)) = 1

\* ---------------------------------------------------------------- scheduler claims, continued
\* the names whose job the step has handed to the evaluator
NewlyEnqueued == {n \in Names : enq'[n] > enq[n]}

\* a step of the loop after which the manager is in the same loop
IsLoopStep == pc \in {"build", "update"} /\ left' = left - 1 /\ pc' = pc

\* C31: enqueue_ready takes out of `waiting` and enqueues every job whose
\* remaining count is zero and no job whose count is positive, and the jobs it
\* leaves are in the order they had; whenever the manager waits in dequeue no
\* job in `waiting` has a remaining count of zero.
C31_EnqueueReadyDrainsZeroCounts ==
    /\ [](pc \in {"build", "update"} =>
            \A i \in 1..Len(waiting) : dependencies[waiting[i].name] # 0)
    /\ [][IsLoopStep =>
            LET after == dependencies'
                zero(job) == after[job.name] = 0
                positive(job) == after[job.name] # 0
            IN  /\ waiting' = SelectSeq(waiting, positive)
                /\ NewlyEnqueued = {job.name : job \in Range(SelectSeq(waiting, zero))}
                /\ \A job \in queue' \ queue : zero(job)
         ]_vars

\* a completion after which one waiting job is enqueued and another is kept
C31_Witness ==
    /\ pc = "build"
    /\ dequeues = 1
    /\ Len(waiting) = 1
    /\ Cardinality({n \in Names : enq[n] = 1}) = 2
    /\ dependencies[waiting[1].name] > 0

\* the step in which the loop dequeues a completed job and calls handle_done
IsHandleDone ==
    /\ pc \in {"build", "update"}
    /\ left' = left - 1
    /\ completed # << >>
    /\ Head(completed) # None

\* C32: handle_done(job) installs the bind of the job into `finished`, then
\* decrements by exactly one the remaining count of every direct dependent of
\* the finished rule that has an entry in `dependencies` and leaves every
\* other count as it was, then enqueues the jobs that have become ready: a
\* job enqueued by the step has count zero after the decrement and carries the
\* bind just installed if the finished rule is one of its dependencies. (A
\* decrement that overflows with overflow checks on panics before any
\* count is written back; that step is the subject of C18.)
C32_HandleDoneOrder ==
    [][IsHandleDone =>
        LET name == Head(completed)[1].name
            dependents == dependents_of(graph, name)
        IN  /\ name \in DOMAIN finished'
            /\ finished'[name].arc = run
            /\ \A other \in DOMAIN finished' \ {name} :
                  other \in DOMAIN finished /\ finished'[other] = finished[other]
            /\ pc' # "panic" =>
                /\ DOMAIN dependencies' = DOMAIN dependencies
                /\ \A r \in DOMAIN dependencies :
                      dependencies'[r] =
                          IF r \in dependents THEN dependencies[r] - 1
                          ELSE dependencies[r]
                /\ NewlyEnqueued =
                      {waiting[i].name : i \in {k \in 1..Len(waiting) :
                                                  dependencies'[waiting[k].name] = 0}}
                /\ \A job \in queue' \ queue :
                      name \in dependencies_of(graph, job.name) => job.deps[name] = run
      ]_vars

\* handle_done for a rule with two dependents, one of which becomes ready
\* and is enqueued while the other still waits
C32_Witness ==
    /\ pc = "build"
    /\ dequeues = 1
    /\ \E a \in donenow :
        /\ Cardinality(dependents_of(graph, a)) = 2
        /\ \E job \in queue : a \in DOMAIN job.deps /\ job.deps[a] = run
        /\ \E i \in 1..Len(waiting) :
            /\ waiting[i].name \in dependents_of(graph, a)
            /\ dependencies[waiting[i].name] = 1

\* ---------------------------------------------------------------- update claims, continued
\* C33: in step 1 of update the clone of a finished Matching bind has an item
\* marked stale if and only if the item has a reading path and that path is
\* one of the changed paths the pattern of the rule matches; no other item is
\* marked, the routes of the items are untouched and the clone is flagged.
C33_DirtyExactlyTheChangedItems ==
    call.fn = "modified" =>
        /\ call.out.stale
        /\ Len(call.out.items) = Len(call.bind.items)
        /\ \A i \in 1..Len(call.bind.items) :
            /\ call.out.items[i].route = call.bind.items[i].route
            /\ call.out.items[i].stale <=>
                /\ reading(call.bind.items[i].route) # None
                /\ reading(call.bind.items[i].route)[1] \in call.changed \cap call.pattern

\* two items read the changed path: only the first is marked
C33_SecondReaderNotMarked ==
    /\ call.fn = "modified"
    /\ Len(call.bind.items) = 2
    /\ reading(call.bind.items[1].route) = reading(call.bind.items[2].route)
    /\ reading(call.bind.items[1].route) # None
    /\ reading(call.bind.items[1].route)[1] \in call.changed \cap call.pattern
    /\ call.out.items[1].stale
    /\ ~call.out.items[2].stale

\* ---------------------------------------------------------------- graph claims, continued
\* C34: the forward and the reverse map mirror each other after any sequence
\* of add_node / add_edge calls: v is a dependent of u exactly when u is in
\* the reverse set of v, and dependency_count(v) is the number of distinct u
\* with an edge u -> v.
C34_MapsMirror ==
    /\ \A u \in Names, v \in Names :
        v \in dependents_of(graph, u) <=>
            (v \in DOMAIN graph.reverse /\ u \in graph.reverse[v])
    /\ \A v \in Names :
        dependency_count(graph, v) =
            Cardinality({u \in Names : v \in dependents_of(graph, u)})

\* a node with two dependencies that is itself a dependency of another
C34_Witness ==
    \E v \in Names :
        /\ dependency_count(graph, v) = 2
        /\ dependents_of(graph, v) # {}

\* C35: add_node is idempotent and destroys nothing: called for a node the
\* graph already has, with or without edges, it leaves both maps as they are,
\* and no call of add_node or add_edge ever erases a node or an edge.
C35_AddNodeIdempotent ==
    /\ [](\A n \in Names :
            /\ add_node(add_node(graph, n), n) = add_node(graph, n)
            /\ n \in nodes(graph) => add_node(graph, n) = graph
            /\ EdgeSet(add_node(graph, n)) = EdgeSet(graph)
            /\ add_node(graph, n).reverse = graph.reverse)
    /\ [][/\ EdgeSet(graph) \subseteq EdgeSet(graph')
          /\ nodes(graph) \subseteq nodes(graph')]_vars

\* a node with an incoming and an outgoing edge, and a node without edges:
\* add_node is called on both
C35_Witness ==
    /\ \E n \in nodes(graph) :
        /\ dependents_of(graph, n) # {}
        /\ dependency_count(graph, n) > 0
    /\ \E n \in nodes(graph) :
        /\ dependents_of(graph, n) = {}
        /\ dependency_count(graph, n) = 0

\* C36: the forward map has a key for every node of the graph: after any
\* sequence of add_node / add_edge calls every node that was added or that
\* is an endpoint of an edge is a key of `edges` and is returned by nodes().
C36_EveryNodeIsAKey ==
    /\ \A e \in EdgeSet(graph) : e[1] \in nodes(graph) /\ e[2] \in nodes(graph)
    /\ DOMAIN graph.reverse \subseteq nodes(graph)

\* after add_edge(1, 2) alone, node 2 is no key of `edges`
C36_TargetIsNoKey ==
    /\ EdgeSet(graph) = {<<1, 2>>}
    /\ nodes(graph) = {1}
    /\ DOMAIN graph.reverse = {2}

\* ---------------------------------------------------------------- reset claims
\* C37: whenever build or update has returned, by whichever return path, the
\* manager is in its reusable state: `waiting` is empty, `count` is 0 and the
\* graph is empty. (Between a return and the next call Site touches nothing
\* of the manager.)
C37_ReturnsReset ==
    (pc = "idle" /\ run > 0) =>
        /\ waiting = << >>
        /\ count = 0
        /\ graph = NewGraph

\* an update that matched nothing has returned with the prepared jobs still
\* waiting
C37_EarlyReturnKeepsJobs ==
    /\ pc = "idle"
    /\ mode = "update"
    /\ run = 1
    /\ Len(site_rules) = 1
    /\ Len(waiting) = 1
    /\ count = 1
    /\ graph # NewGraph

\* ---------------------------------------------------------------- concurrency claims
\* the names of the jobs the evaluator holds: enqueued and not yet dequeued
InFlight ==
    {job.name : job \in queue} \cup {job.name : job \in CompletedJobs}

\* the rules that take part in the run in progress
Participants == IF mode = "build" THEN DOMAIN rules ELSE AffectedClosure

\* C38: at every point of a build or an update each rule taking part is in
\* exactly one of three places: in `waiting`, in flight at the evaluator, or
\* completed in this run; and whenever the manager calls dequeue with
\* completions still expected at least one job is in flight. Stated for rules
\* registered under distinct names.
C38_ExactlyOnePlace ==
    (pc \in {"build", "update"} /\ UniqueNames(site_rules)) =>
        /\ \A n \in Participants :
            Cardinality({place \in {"waiting", "flight", "done"} :
                \/ place = "waiting" /\ n \in Range(WaitingNames)
                \/ place = "flight" /\ n \in InFlight
                \/ place = "done" /\ n \in donenow}) = 1
        /\ left > 0 => InFlight # {}

\* the three places partition the rules of the run
PlacesPartition ==
    (pc \in {"build", "update"} /\ UniqueNames(site_rules)) =>
        \A n \in Participants :
            Cardinality({place \in {"waiting", "flight", "done"} :
                \/ place = "waiting" /\ n \in Range(WaitingNames)
                \/ place = "flight" /\ n \in InFlight
                \/ place = "done" /\ n \in donenow}) = 1

\* an update waits in dequeue for a completion while nothing is in flight
C38_NothingInFlight ==
    /\ pc = "update"
    /\ UniqueNames(site_rules)
    /\ left > 0
    /\ InFlight = {}
    /\ waiting # << >>

\* C39: the outcome of a full build does not depend on the order in which
\* the workers complete independent jobs: it is a function of the registered
\* rules alone. Whatever the interleaving, when the build returns `finished`
\* holds exactly the rules of the build, every rule was dispatched exactly once,
\* and every job was dispatched with snapshots for exactly the dependencies
\* its rule declares. Stated for rules registered under distinct names.
C39_OutcomeIndependentOfOrder ==
    (mode = "build" /\ UniqueNames(site_rules)) =>
        /\ pc = "build" =>
            \A job \in queue : DOMAIN job.deps = DeclaredDeps(job.name)
        /\ pc = "idle" =>
            /\ DOMAIN finished = DOMAIN rules
            /\ \A n \in DOMAIN rules :
                /\ enq[n] = 1
                /\ DOMAIN finished[n].deps = DeclaredDeps(n)

\* two independent rules and a third that depends on both: the second was
\* completed and handled before the first
C39_Witness ==
    /\ mode = "build"
    /\ pc = "build"
    /\ UniqueNames(site_rules)
    /\ Len(site_rules) = 3
    /\ DeclaredDeps(1) = {} /\ DeclaredDeps(2) = {} /\ DeclaredDeps(3) = {1, 2}
    /\ donenow = {2}
    /\ 1 \in InFlight

\* ---------------------------------------------------------------- registration claims, continued
\* C40: registration alone keeps the rule graph acyclic: whatever rules
\* Site::register has accepted, the graph prepare builds from them has no
\* directed cycle and build never takes the cycle-error branch.
C40_RegisteredGraphAcyclic ==
    /\ ~HasCycle(graph)
    /\ pc # "exit"

\* rule 1 is registered, then registered again depending on itself: the
\* build finds the cycle and exits
C40_SelfDependency ==
    /\ pc = "exit"
    /\ mode = "build"
    /\ Len(site_rules) = 2
    /\ site_rules[1].name = 1 /\ site_rules[1].deps = {}
    /\ site_rules[2].name = 1 /\ site_rules[2].deps = {1}
    /\ HasCycle(graph)

====
